---- MODULE Spec2Model ----
(***************************************************************************)
(* Trustlink escrow: the transaction lifecycle of escrow/services.py, the  *)
(* verification gate of groups/verification_service.py and the dispute     *)
(* resolution of escrow/dispute_service.py, as a state machine over the    *)
(* database rows the services read and write.                              *)
(*                                                                         *)
(* Every service function is an operator from a database value (and its    *)
(* arguments) to the database it commits and the value it returns, so that *)
(* a function calling another (resolve_dispute -> refund_transaction) is   *)
(* the composition of the operators, and an exception inside               *)
(* transaction.atomic() is the operator returning the database it was      *)
(* given.  One action per call applies the operator to the current rows.   *)
(*                                                                         *)
(* Spec follows one transaction id through every order of create, fund,    *)
(* complete, refund, openDispute and resolve.  A service call touches only *)
(* the rows of the transaction it is given and that transaction's listing. *)
(* Every read of timezone.now() inside one call returns the clock; Tick    *)
(* lets time pass between calls.                                           *)
(***************************************************************************)
EXTENDS Integers, Sequences, FiniteSets, TLC

\* ------------------------------------------------------------------ bounds
MaxTime == 2        \* largest value the clock reaches
MaxHistory == 3     \* the admin console edits a row that has been in fewer states
MaxWebhooks == 3    \* webhook records one transaction may hold

\* --------------------------------------------------------- program constants
TransferWindow == 7 \* days added to now for transfer_deadline
RecentLimit == 5    \* audit entries a status report carries

\* ------------------------------------------------------------- input sets
TxIds == {1}                 \* the ids create hands out
Users == {"u1", "u2", "u3"}
ListingIds == {"L1", "L2"}
\* The arguments create is called with: a valid purchase, and the same with
\* the buyer being the seller, a zero amount, an unlisted currency, a listing
\* that is not for sale.
ValidCreate ==
    [buyer |-> "u1", seller |-> "u2", listing |-> "L1", amount |-> 150, currency |-> "USDT"]
CreateArgs ==
    {ValidCreate, [ValidCreate EXCEPT !.buyer = "u2"], [ValidCreate EXCEPT !.amount = 0],
     [ValidCreate EXCEPT !.currency = "DOGE"], [ValidCreate EXCEPT !.listing = "L2"]}
Hashes == {"h1", "h2"}
Addresses == {"a1"}
Rulings == {"FAVOR_SELLER", "FAVOR_BUYER", "PARTIAL_REFUND", "NO_ACTION", "BOGUS"}
Admins == {"admin"}
Reasons == {"expired"}
Procs == {1, 2}              \* the workers that serve webhook deliveries at once
\* What the Telegram API answers to one verification.
Probes ==
    [fetch : {"ok", "error"}, creator : {"seller", "other", "none"},
     title_matches : BOOLEAN, getme : {"ok", "error"}, bot_is_admin : BOOLEAN]
\* The answers fund() is driven with: all checks pass, each check fails alone,
\* the API cannot be reached, get_me fails.
AllOk == [fetch |-> "ok", creator |-> "seller", title_matches |-> TRUE,
          getme |-> "ok", bot_is_admin |-> TRUE]
FundProbes ==
    {AllOk, [AllOk EXCEPT !.creator = "other"], [AllOk EXCEPT !.creator = "none"],
     [AllOk EXCEPT !.title_matches = FALSE], [AllOk EXCEPT !.bot_is_admin = FALSE],
     [AllOk EXCEPT !.fetch = "error"], [AllOk EXCEPT !.getme = "error"]}
\* The payment hash and probe answer of a fund() call: every answer with one
\* hash, and a second hash whose verification passes.
FundArgs == ({"h1"} \X FundProbes) \cup {<<"h2", AllOk>>}

\* ------------------------------------------------------------------ values
Null == <<>>                 \* a null column
Some(x) == <<x>>             \* a column holding x
NoRow == [exists |-> FALSE]  \* no row with that key

STATUS_CHOICES ==
    {"PENDING", "FUNDED", "AWAITING_TRANSFER", "VERIFYING", "COMPLETED",
     "REFUNDED", "DISPUTED", "CANCELLED"}

\* The currency list with one more entry.
SupportedCurrencies_WithDoge == {"USDT", "ETH", "BTC", "DOGE"}

SupportedCurrencies == {"USDT", "ETH", "BTC"}

ACTION_CHOICES ==
    {"ESCROW_CREATED", "PAYMENT_RECEIVED", "TRANSFER_STARTED", "OWNERSHIP_CHANGED",
     "VERIFICATION_PASSED", "VERIFICATION_FAILED", "FUNDS_RELEASED",
     "FUNDS_REFUNDED", "DISPUTE_OPENED", "DISPUTE_RESOLVED"}

\* The reverse accessor of DisputeCase.transaction on an EscrowTransaction.
DisputeRelatedName == "dispute_case"

VARIABLES
    txs,        \* EscrowTransaction rows, by id
    listings,   \* GroupListing.status, by listing id
    disputes,   \* DisputeCase rows, by the transaction they belong to (1:1)
    audit,      \* AuditLog rows of each transaction, oldest first
    webhooks,   \* PaymentWebhook.processed of each transaction's rows, oldest first
    verifs,     \* GroupVerificationResult rows, by transaction (1:1)
    transitions,\* the states each transaction has been in, one element per change
    now,        \* timezone.now()
    last,       \* the last call made and what it returned
    procs       \* the fund() call each worker is in the middle of

vars == <<txs, listings, disputes, audit, webhooks, verifs, transitions, now, last, procs>>

\* The rows as one value, and the commit of such a value.
DB ==
    [txs |-> txs, listings |-> listings, disputes |-> disputes, audit |-> audit,
     webhooks |-> webhooks, verifs |-> verifs, transitions |-> transitions]

Commit(d) ==
    /\ txs' = d.txs
    /\ listings' = d.listings
    /\ disputes' = d.disputes
    /\ audit' = d.audit
    /\ webhooks' = d.webhooks
    /\ verifs' = d.verifs
    /\ transitions' = d.transitions

\* ------------------------------------------------------------ row helpers
Exists(d, t) == t \in DOMAIN d.txs /\ d.txs[t].exists

\* escrow_transaction.status = s; escrow_transaction.save().  transitions keeps
\* the states the row has been in, one element per change of state.
SetStatus(d, t, s) ==
    [d EXCEPT !.txs[t].status = s,
              !.transitions[t] = IF d.txs[t].status = s THEN @ ELSE Append(@, s)]

\* A write that keeps only the newest entry of a trail.
AuditLogCreate_Replace(d, t, a, u) ==
    [d EXCEPT !.audit[t] = <<[action |-> a, user |-> u]>>]

\* AuditLog.objects.create(transaction=t, action=a, user=u)
AuditLogCreate(d, t, a, u) ==
    [d EXCEPT !.audit[t] = Append(@, [action |-> a, user |-> u])]

\* hasattr(escrow_transaction, name): the reverse one-to-one accessor exists
\* under its related_name, and only when a DisputeCase row points at t.
HasAttr(d, t, name) ==
    name = DisputeRelatedName /\ d.disputes[t].exists

Result(d, r, i) == [db |-> d, ret |-> r, id |-> i]

\* ------------------------------------------------------ create_transaction
NextTxId(d) ==
    CHOOSE t \in DOMAIN d.txs :
        ~d.txs[t].exists /\ \A u \in DOMAIN d.txs : u < t => d.txs[u].exists

\* The four checks before the row is written; "ok" when none raises.
ValidateInputs(d, buyer, seller, listing, amount, currency) ==
    IF buyer = seller THEN "SAME_USER"
    ELSE IF amount <= 0 THEN "NOT_POSITIVE"
    ELSE IF currency \notin SupportedCurrencies THEN "UNSUPPORTED_CURRENCY"
    ELSE IF d.listings[listing] # "ACTIVE" THEN "LISTING_NOT_ACTIVE"
    ELSE "ok"

create_transaction(d, clk, buyer, seller, listing, amount, currency) ==
    IF ValidateInputs(d, buyer, seller, listing, amount, currency) # "ok"
    THEN Result(d, "ValueError", 0)
    ELSE
        LET t == NextTxId(d)
            row == [exists |-> TRUE, buyer |-> buyer, seller |-> seller,
                    listing |-> listing, amount |-> amount, currency |-> currency,
                    status |-> "PENDING",
                    payment_address |-> Null, payment_tx_hash |-> Null,
                    created_at |-> Some(clk), funded_at |-> Null,
                    transfer_deadline |-> Some(clk + TransferWindow),
                    completed_at |-> Null, notes |-> <<>>]
            d1 == [d EXCEPT !.txs[t] = row, !.transitions[t] = <<"PENDING">>]
            d2 == AuditLogCreate(d1, t, "ESCROW_CREATED", buyer)
        IN Result(d2, "Transaction", t)

\* ------------------------------------------------------------ state guards
\* The guard left out: a payment is taken in any state.
CanFund_AnyState(row) == TRUE

\* if escrow_transaction.status != "PENDING": return False
CanFund(row) == row.status = "PENDING"

\* The guard left out: funds are released in any state.
CanComplete_AnyState(row) == TRUE

\* if escrow_transaction.status not in ["VERIFYING", "AWAITING_TRANSFER"]: return False
CanComplete(row) == row.status \in {"VERIFYING", "AWAITING_TRANSFER"}

\* The guard that also refuses a disputed transaction.
CanRefund_NotDisputed(row) == row.status \notin {"COMPLETED", "REFUNDED", "DISPUTED"}

\* The guard left out: a refund is made in any state.
CanRefund_AnyState(row) == TRUE

\* if escrow_transaction.status in ["COMPLETED", "REFUNDED"]: return False
CanRefund(row) == row.status \notin {"COMPLETED", "REFUNDED"}

\* The guard left out: a ruling is applied in any state.
CanResolve_AnyState(row) == TRUE

\* if transaction.status != 'DISPUTED': return False
CanResolve(row) == row.status = "DISPUTED"

\* The revert that assumes a payment: always on to AWAITING_TRANSFER.
RevertedStatus_AlwaysAwaiting(row) == "AWAITING_TRANSFER"

\* The revert that forgets the payment: always back to PENDING.
RevertedStatus_AlwaysPending(row) == "PENDING"

\* NO_ACTION: AWAITING_TRANSFER if transaction.funded_at else PENDING
RevertedStatus(row) == IF row.funded_at # Null THEN "AWAITING_TRANSFER" ELSE "PENDING"

\* ------------------------------------------------ GroupVerificationService
verify_ownership(probe) ==
    IF probe.creator = "none" THEN [ok |-> FALSE, details |-> "NO_CREATOR"]
    ELSE IF probe.creator # "seller" THEN [ok |-> FALSE, details |-> "NOT_CREATOR"]
    ELSE [ok |-> TRUE, details |-> "OWNER_OK"]

verify_metadata(probe) ==
    IF ~probe.title_matches THEN [ok |-> FALSE, details |-> "TITLE_MISMATCH"]
    ELSE [ok |-> TRUE, details |-> "METADATA_OK"]

\* The agent check that passes without looking at the administrators.
verify_bot_status_AlwaysOk(probe) == [ok |-> TRUE, details |-> "BOT_OK"]

verify_bot_status(probe) ==
    IF ~probe.bot_is_admin THEN [ok |-> FALSE, details |-> "BOT_NOT_ADMIN"]
    ELSE [ok |-> TRUE, details |-> "BOT_OK"]

\* [details for (ok, details) in checks if not ok]
FailureReasons(checks) ==
    LET F[i \in 0..Len(checks)] ==
            IF i = 0 THEN <<>>
            ELSE IF checks[i].ok THEN F[i - 1]
            ELSE Append(F[i - 1], checks[i].details)
    IN F[Len(checks)]

\* update_or_create(transaction=t, defaults=...): an existing row keeps the
\* columns the defaults do not name.
create_failed_verification_result(d, t, reasons) ==
    LET old == IF d.verifs[t].exists THEN d.verifs[t]
               ELSE [exists |-> TRUE, result |-> "PENDING", ownership_verified |-> FALSE,
                     metadata_matches |-> FALSE, admin_permissions_correct |-> FALSE,
                     failure_reasons |-> <<>>]
    IN [d EXCEPT !.verifs[t] =
            [old EXCEPT !.result = "FAILED", !.failure_reasons = reasons]]

save_verification_result(d, t, passed, own, meta, bot, reasons) ==
    [d EXCEPT !.verifs[t] =
        [exists |-> TRUE, result |-> IF passed THEN "PASSED" ELSE "FAILED",
         ownership_verified |-> own, metadata_matches |-> meta,
         admin_permissions_correct |-> bot, failure_reasons |-> reasons]]

\* raised: an exception left the coroutine (get_me is awaited outside the try).
perform_full_verification(d, t, probe) ==
    IF probe.fetch = "error"
    THEN LET d1 == create_failed_verification_result(d, t, <<"API_UNREACHABLE">>)
         IN [db |-> d1, raised |-> FALSE, row |-> d1.verifs[t]]
    ELSE IF probe.getme = "error"
    THEN [db |-> d, raised |-> TRUE, row |-> NoRow]
    ELSE
        LET own == verify_ownership(probe)
            meta == verify_metadata(probe)
            bot == verify_bot_status(probe)
            all_checks_passed == own.ok /\ meta.ok /\ bot.ok
            d1 == save_verification_result(d, t, all_checks_passed, own.ok, meta.ok,
                                           bot.ok, FailureReasons(<<own, meta, bot>>))
        IN [db |-> d1, raised |-> FALSE, row |-> d1.verifs[t]]

\* -------------------------------------------------- start_transfer_process
\* The transfer phase that never starts: the call refuses and writes nothing.
start_transfer_process_Refused(d, t) == Result(d, "False", 0)

\* The transfer phase that opens in VERIFYING.
start_transfer_process_Verifying(d, t) ==
    IF ~Exists(d, t) THEN Result(d, "False", 0)
    ELSE IF d.txs[t].status # "FUNDED" THEN Result(d, "False", 0)
    ELSE Result(AuditLogCreate(SetStatus(d, t, "VERIFYING"), t, "TRANSFER_STARTED",
                               d.txs[t].seller), "True", 0)

start_transfer_process(d, t) ==
    IF ~Exists(d, t) THEN Result(d, "False", 0)
    ELSE IF d.txs[t].status # "FUNDED" THEN Result(d, "False", 0)
    ELSE
        LET d1 == SetStatus(d, t, "AWAITING_TRANSFER")
            d2 == AuditLogCreate(d1, t, "TRANSFER_STARTED", d.txs[t].seller)
        IN Result(d2, "True", 0)

\* ------------------------------------------------ process_payment_received
process_payment_received(d, clk, t, payment_tx_hash, payment_address, probe) ==
    IF ~Exists(d, t) THEN Result(d, "False", 0)
    ELSE IF ~CanFund(d.txs[t]) THEN Result(d, "False", 0)
    ELSE
        LET d1 == [SetStatus(d, t, "FUNDED") EXCEPT
                        !.txs[t].payment_tx_hash = Some(payment_tx_hash),
                        !.txs[t].payment_address = Some(payment_address),
                        !.txs[t].funded_at = Some(clk)]
            d2 == [d1 EXCEPT !.webhooks[t] = Append(@, TRUE)]
            d3 == AuditLogCreate(d2, t, "PAYMENT_RECEIVED", "None")
            v == perform_full_verification(d3, t, probe)
        IN  IF v.raised THEN Result(d, "False", 0)   \* atomic() rolls back
            ELSE IF v.row.result # "PASSED"
            THEN LET d4 == [SetStatus(v.db, t, "DISPUTED") EXCEPT
                                !.txs[t].notes = <<"VERIFICATION_FAILED", v.row.failure_reasons>>]
                 IN Result(d4, "False", 0)
            ELSE Result(start_transfer_process(v.db, t).db, "True", 0)

\* ---------------------------------------------------- complete_transaction
complete_transaction(d, clk, t) ==
    IF ~Exists(d, t) THEN Result(d, "False", 0)
    ELSE IF ~CanComplete(d.txs[t]) THEN Result(d, "False", 0)
    ELSE
        LET d1 == [SetStatus(d, t, "COMPLETED") EXCEPT !.txs[t].completed_at = Some(clk)]
            d2 == [d1 EXCEPT !.listings[d.txs[t].listing] = "SOLD"]
            d3 == AuditLogCreate(d2, t, "FUNDS_RELEASED", "None")
        IN Result(d3, "True", 0)

\* ------------------------------------------------------ refund_transaction
refund_transaction(d, clk, t, reason) ==
    IF ~Exists(d, t) THEN Result(d, "False", 0)
    ELSE IF ~CanRefund(d.txs[t]) THEN Result(d, "False", 0)
    ELSE
        LET d1 == [SetStatus(d, t, "REFUNDED") EXCEPT
                        !.txs[t].completed_at = Some(clk),
                        !.txs[t].notes = <<"REFUNDED", reason>>]
            d2 == AuditLogCreate(d1, t, "FUNDS_REFUNDED", "None")
        IN Result(d2, "True", 0)

\* ---------------------------------------------------------- create_dispute
\* The check that lets anyone open a dispute.
IsParty_Anyone(row, user) == TRUE

\* opened_by in [escrow_transaction.buyer, escrow_transaction.seller]
IsParty(row, user) == user \in {row.buyer, row.seller}

NextDisputeId(d) == Cardinality({t \in DOMAIN d.disputes : d.disputes[t].exists}) + 1

create_dispute(d, t, opened_by, description) ==
    IF ~Exists(d, t) THEN Result(d, "None", 0)
    ELSE IF ~IsParty(d.txs[t], opened_by) THEN Result(d, "None", 0)
    ELSE IF HasAttr(d, t, "disputecase") THEN Result(d, "DisputeCase", d.disputes[t].id)
    ELSE
        LET d1 == SetStatus(d, t, "DISPUTED")
            row == [exists |-> TRUE, id |-> NextDisputeId(d), opened_by |-> opened_by,
                    description |-> description, status |-> "OPEN", ruling |-> Null,
                    resolved_by |-> Null, resolution_notes |-> Null, resolved_at |-> Null]
        IN  IF d1.disputes[t].exists
            THEN Result(d, "None", 0)   \* OneToOneField: IntegrityError, atomic() rolls back
            ELSE LET d2 == [d1 EXCEPT !.disputes[t] = row]
                     d3 == AuditLogCreate(d2, t, "DISPUTE_OPENED", opened_by)
                 IN Result(d3, "DisputeCase", row.id)

\* --------------------------------------------------------- resolve_dispute
\* The failed ruling that leaves the case as it was saved: RESOLVED.
RevertDispute_Keep(d, t) == d

\* dispute.status = 'AWAITING_RULING'; dispute.save()
RevertDispute(d, t) == [d EXCEPT !.disputes[t].status = "AWAITING_RULING"]

\* The DisputeCase passed in is the row of transaction t.
resolve_dispute(d, clk, t, ruling, resolved_by, notes) ==
    IF ~CanResolve(d.txs[t]) THEN Result(d, "False", 0)
    ELSE
        LET d1 == [d EXCEPT !.disputes[t].status = "RESOLVED",
                            !.disputes[t].ruling = Some(ruling),
                            !.disputes[t].resolved_by = Some(resolved_by),
                            !.disputes[t].resolution_notes = Some(notes),
                            !.disputes[t].resolved_at = Some(clk)]
            r == CASE ruling = "FAVOR_SELLER" -> complete_transaction(d1, clk, t)
                   [] ruling = "FAVOR_BUYER" -> refund_transaction(d1, clk, t, "FAVOR_BUYER")
                   [] ruling = "PARTIAL_REFUND" ->
                        LET p1 == [SetStatus(d1, t, "COMPLETED") EXCEPT
                                        !.txs[t].notes = <<"PARTIAL_REFUND", notes>>]
                        IN Result(AuditLogCreate(p1, t, "DISPUTE_RESOLVED", "None"), "True", 0)
                   [] ruling = "NO_ACTION" ->
                        LET n1 == IF d1.txs[t].status = "DISPUTED"
                                  THEN SetStatus(d1, t, RevertedStatus(d1.txs[t])) ELSE d1
                        IN Result([n1 EXCEPT !.txs[t].notes = <<"NO_ACTION", notes>>], "True", 0)
                   [] OTHER -> Result(d1, "False", 0)
        IN  IF r.ret = "True" THEN r
            ELSE Result(RevertDispute(r.db, t), "False", 0)

\* -------------------------------------------------- get_transaction_status
\* The formatting that renders a null column as the epoch.
IsoFormat_NullAsEpoch(col) == IF col = Null THEN Some([iso |-> 0]) ELSE Some([iso |-> col[1]])

\* x.isoformat() if x else None: a set column becomes its text, null stays None.
IsoFormat(col) == IF col = Null THEN Null ELSE Some([iso |-> col[1]])

\* transfer_deadline - now when that is positive, else None.
TimeRemaining(row, clk) ==
    IF row.transfer_deadline # Null /\ row.transfer_deadline[1] - clk > 0
    THEN Some(row.transfer_deadline[1] - clk) ELSE Null

\* EscrowTransaction.is_expired()
is_expired(row, clk) == row.transfer_deadline # Null /\ clk > row.transfer_deadline[1]

\* audit_logs.all()[:5].values("action", ...): newest first (ordering -timestamp).
RecentLogs(trail) ==
    LET n == IF Len(trail) < RecentLimit THEN Len(trail) ELSE RecentLimit
    IN [i \in 1..n |-> trail[Len(trail) - i + 1].action]

\* Reads only: the database returned is the database given.
get_transaction_status(d, clk, t) ==
    IF ~Exists(d, t) THEN [db |-> d, ret |-> "None", id |-> 0, info |-> Null]
    ELSE
        LET row == d.txs[t]
            status_info ==
                [transaction_id |-> t, status |-> row.status, amount |-> row.amount,
                 currency |-> row.currency, buyer |-> row.buyer, seller |-> row.seller,
                 group |-> row.listing,
                 timeline |-> [created_at |-> IsoFormat(row.created_at),
                               funded_at |-> IsoFormat(row.funded_at),
                               completed_at |-> IsoFormat(row.completed_at),
                               transfer_deadline |-> IsoFormat(row.transfer_deadline),
                               time_remaining |-> TimeRemaining(row, clk)],
                 payment |-> [tx_hash |-> row.payment_tx_hash,
                              address |-> row.payment_address],
                 is_expired |-> is_expired(row, clk),
                 recent_activity |-> RecentLogs(d.audit[t]),
                 dispute |-> IF HasAttr(d, t, "disputecase")
                             THEN Some(d.disputes[t].status) ELSE Null]
        IN [db |-> d, ret |-> "Dict", id |-> 0, info |-> Some(status_info)]

\* ------------------------------------------------------------------ state
\* A worker that is in no call.
IdleProc ==
    [pc |-> "idle", tx |-> 0, h |-> "none", a |-> "none", probe |-> AllOk,
     called_in |-> "none", observed |-> "none", base |-> Null, work |-> Null,
     wrote |-> FALSE, ret |-> "None", ruling |-> "none"]

Init ==
    /\ txs = [t \in TxIds |-> NoRow]
    /\ listings = [l \in ListingIds |-> IF l = "L1" THEN "ACTIVE" ELSE "SUSPENDED"]
    /\ disputes = [t \in TxIds |-> NoRow]
    /\ audit = [t \in TxIds |-> <<>>]
    /\ webhooks = [t \in TxIds |-> <<>>]
    /\ verifs = [t \in TxIds |-> NoRow]
    /\ transitions = [t \in TxIds |-> <<>>]
    /\ now = 1
    /\ last = [op |-> "none", tx |-> 0, ret |-> "None", id |-> 0, info |-> Null]
    /\ procs = [p \in Procs |-> IdleProc]

\* info is the dictionary a status call returned; the other calls return none.
Called(op, t, r) ==
    last' = [op |-> op, tx |-> t, ret |-> r.ret, id |-> r.id, info |-> Null]

\* A create that passes validation needs an id that is not in use.
Create(buyer, seller, listing, amount, currency) ==
    /\ \/ \E t \in DOMAIN txs : ~txs[t].exists
       \/ ValidateInputs(DB, buyer, seller, listing, amount, currency) # "ok"
    /\ LET r == create_transaction(DB, now, buyer, seller, listing, amount, currency)
       IN /\ Commit(r.db)
          /\ Called("create", r.id, r)
    /\ UNCHANGED <<now, procs>>

Fund(t, h, a, probe) ==
    /\ LET r == process_payment_received(DB, now, t, h, a, probe)
       IN /\ Commit(r.db)
          /\ Called("fund", t, r)
    /\ UNCHANGED <<now, procs>>

Complete(t) ==
    /\ LET r == complete_transaction(DB, now, t)
       IN /\ Commit(r.db)
          /\ Called("complete", t, r)
    /\ UNCHANGED <<now, procs>>

Refund(t, reason) ==
    /\ LET r == refund_transaction(DB, now, t, reason)
       IN /\ Commit(r.db)
          /\ Called("refund", t, r)
    /\ UNCHANGED <<now, procs>>

OpenDispute(t, u) ==
    /\ LET r == create_dispute(DB, t, u, "description")
       IN /\ Commit(r.db)
          /\ Called("openDispute", t, r)
    /\ UNCHANGED <<now, procs>>

Resolve(t, ruling, admin) ==
    /\ disputes[t].exists
    /\ LET r == resolve_dispute(DB, now, t, ruling, admin, "notes")
       IN /\ Commit(r.db)
          /\ Called("resolve", t, r)
    /\ UNCHANGED <<now, procs>>

Status(t) ==
    /\ LET r == get_transaction_status(DB, now, t)
       IN /\ Commit(r.db)
          /\ last' = [op |-> "status", tx |-> t, ret |-> r.ret, id |-> r.id, info |-> r.info]
    /\ UNCHANGED <<now, procs>>

Tick ==
    /\ now < MaxTime
    /\ now' = now + 1
    /\ UNCHANGED <<txs, listings, disputes, audit, webhooks, verifs, transitions, last, procs>>

Next ==
    \/ \E x \in CreateArgs : Create(x.buyer, x.seller, x.listing, x.amount, x.currency)
    \/ \E t \in TxIds, a \in Addresses, x \in FundArgs : Fund(t, x[1], a, x[2])
    \/ \E t \in TxIds : Complete(t)
    \/ \E t \in TxIds, reason \in Reasons : Refund(t, reason)
    \/ \E t \in TxIds, u \in Users : OpenDispute(t, u)
    \/ \E t \in TxIds, ruling \in Rulings, admin \in Admins : Resolve(t, ruling, admin)
    \/ \E t \in TxIds : Status(t)
    \/ Tick

Spec == Init /\ [][Next]_vars

\* ------------------------------------------------------------ admin console
\* The staff edits of an EscrowTransaction: they write the status column and
\* nothing else (no audit entry, no timestamp).  SpecAdmin adds them to the
\* service calls, so that a row can be in each of the eight states.
AdminEdited(t) ==
    last' = [op |-> "admin", tx |-> t, ret |-> "None", id |-> 0, info |-> Null]

\* queryset.update(status='DISPUTED')
mark_as_disputed(t) ==
    /\ txs[t].exists /\ Len(transitions[t]) < MaxHistory
    /\ Commit(SetStatus(DB, t, "DISPUTED"))
    /\ AdminEdited(t)
    /\ UNCHANGED <<now, procs>>

\* queryset.update(status='CANCELLED')
mark_as_cancelled(t) ==
    /\ txs[t].exists /\ Len(transitions[t]) < MaxHistory
    /\ Commit(SetStatus(DB, t, "CANCELLED"))
    /\ AdminEdited(t)
    /\ UNCHANGED <<now, procs>>

\* The change form: status is an editable field with STATUS_CHOICES.
change_status(t, s) ==
    /\ txs[t].exists /\ Len(transitions[t]) < MaxHistory
    /\ Commit(SetStatus(DB, t, s))
    /\ AdminEdited(t)
    /\ UNCHANGED <<now, procs>>

NextAdmin ==
    \/ Create("u1", "u2", "L1", 150, "USDT")
    \/ \E t \in TxIds, p \in {AllOk, [AllOk EXCEPT !.creator = "other"]} :
          Fund(t, "h1", "a1", p)
    \/ \E t \in TxIds : Complete(t)
    \/ \E t \in TxIds, reason \in Reasons : Refund(t, reason)
    \/ \E t \in TxIds : OpenDispute(t, "u1")
    \/ \E t \in TxIds, ruling \in Rulings, admin \in Admins : Resolve(t, ruling, admin)
    \/ \E t \in TxIds : mark_as_disputed(t)
    \/ \E t \in TxIds : mark_as_cancelled(t)
    \/ \E t \in TxIds, s \in STATUS_CHOICES : change_status(t, s)

SpecAdmin == Init /\ [][NextAdmin]_vars

\* ------------------------------------------------ concurrent fund() calls
\* SpecConcurrent runs one fund() call in each worker, a step at a time:
\* the call is made, SELECT ... FOR UPDATE returns the row once no other
\* database transaction holds its lock, and the atomic block ends (commit or
\* rollback), which releases the lock and returns.  What the block writes is
\* visible to the others only after the commit.

\* The status a reader sees for t.
SeenStatus(d, t) == IF Exists(d, t) THEN d.txs[t].status ELSE "missing"

\* select_for_update(): the row lock of t is held by no open atomic block.
RowLockFree(t) == \A q \in Procs : ~(procs[q].pc = "locked" /\ procs[q].tx = t)

\* The rows after a commit of the writes that took base to new, made on cur:
\* save() rewrites the row, create() adds rows to the tables.
ApplyWrites(cur, base, new, t) ==
    LET added(f) == SubSeq(new[f][t], Len(base[f][t]) + 1, Len(new[f][t]))
    IN [cur EXCEPT
            !.txs[t] = IF new.txs[t] # base.txs[t] THEN new.txs[t] ELSE @,
            !.verifs[t] = IF new.verifs[t] # base.verifs[t] THEN new.verifs[t] ELSE @,
            !.audit[t] = @ \o added("audit"),
            !.webhooks[t] = @ \o added("webhooks"),
            !.transitions[t] = @ \o added("transitions")]

\* A webhook delivery reaches worker p, which calls process_payment_received.
FundCall(p, t, h, a, probe) ==
    /\ procs[p].pc = "idle"
    /\ procs' = [procs EXCEPT ![p] =
            [IdleProc EXCEPT !.pc = "select", !.tx = t, !.h = h, !.a = a, !.probe = probe,
                             !.called_in = SeenStatus(DB, t)]]
    /\ UNCHANGED <<txs, listings, disputes, audit, webhooks, verifs, transitions, now, last>>

\* The SELECT ... FOR UPDATE of worker p returns.  A missing row or a row that
\* is not PENDING ends the call; otherwise the block runs to its end under the
\* lock, its writes held back until the commit.
FundSelect(p) ==
    /\ procs[p].pc = "select"
    /\ LET t == procs[p].tx
           r == process_payment_received(DB, now, t, procs[p].h, procs[p].a, procs[p].probe)
       IN IF ~Exists(DB, t)
          THEN /\ procs' = [procs EXCEPT ![p].pc = "done", ![p].observed = "missing",
                                         ![p].ret = "False"]
               /\ last' = [op |-> "fund", tx |-> t, ret |-> "False", id |-> 0, info |-> Null]
          ELSE /\ RowLockFree(t)
               /\ IF ~CanFund(txs[t])
                  THEN /\ procs' = [procs EXCEPT ![p].pc = "done",
                                                 ![p].observed = txs[t].status,
                                                 ![p].ret = "False"]
                       /\ last' = [op |-> "fund", tx |-> t, ret |-> "False", id |-> 0,
                                   info |-> Null]
                  ELSE /\ procs' = [procs EXCEPT ![p].pc = "locked",
                                                 ![p].observed = txs[t].status,
                                                 ![p].base = Some(DB),
                                                 ![p].work = Some(r)]
                       /\ UNCHANGED last
    /\ UNCHANGED <<txs, listings, disputes, audit, webhooks, verifs, transitions, now>>

\* The atomic block of worker p ends: its writes are committed (a rollback
\* has none), the lock is released and the call returns.
FundReturn(p) ==
    /\ procs[p].pc = "locked"
    /\ LET t == procs[p].tx
           base == procs[p].base[1]
           r == procs[p].work[1]
       IN /\ Commit(ApplyWrites(DB, base, r.db, t))
          /\ procs' = [procs EXCEPT ![p].pc = "done", ![p].ret = r.ret,
                                    ![p].wrote = (r.db # base),
                                    ![p].base = Null, ![p].work = Null]
          /\ Called("fund", t, r)
    /\ UNCHANGED now

NextConcurrent ==
    \/ Create("u1", "u2", "L1", 150, "USDT")
    \/ \E p \in Procs, t \in TxIds, h \in Hashes, a \in Addresses, probe \in FundProbes :
          FundCall(p, t, h, a, probe)
    \/ \E p \in Procs : FundSelect(p)
    \/ \E p \in Procs : FundReturn(p)
    \/ Tick

SpecConcurrent == Init /\ [][NextConcurrent]_vars

\* --------------------------------------- resolve() beside the other calls
\* resolve_dispute runs in no atomic block and takes no row lock: it reads
\* the transaction of the dispute, checks its status, and later saves the
\* objects it holds.  SpecResolveRace runs it in a worker in two steps, the
\* read with its check and the writes, with the locked operations of
\* EscrowService as single steps in between.

\* transaction.save() of an object read earlier: every column is rewritten.
SaveObject(d, t, obj) ==
    [d EXCEPT !.txs[t] = obj,
              !.transitions[t] = IF d.txs[t].status = obj.status THEN @
                                 ELSE Append(@, obj.status)]

\* The part of resolve_dispute after the status check, run on database d with
\* the transaction and dispute objects read before.
execute_ruling(d, clk, t, transaction, dispute, ruling, resolved_by, notes) ==
    LET d1 == [d EXCEPT !.disputes[t] =
                    [dispute EXCEPT !.status = "RESOLVED",
                                    !.ruling = Some(ruling),
                                    !.resolved_by = Some(resolved_by),
                                    !.resolution_notes = Some(notes),
                                    !.resolved_at = Some(clk)]]
        r == CASE ruling = "FAVOR_SELLER" -> complete_transaction(d1, clk, t)
               [] ruling = "FAVOR_BUYER" -> refund_transaction(d1, clk, t, "FAVOR_BUYER")
               [] ruling = "PARTIAL_REFUND" ->
                    LET obj == [transaction EXCEPT !.status = "COMPLETED",
                                                   !.notes = <<"PARTIAL_REFUND", notes>>]
                    IN Result(AuditLogCreate(SaveObject(d1, t, obj), t,
                                             "DISPUTE_RESOLVED", "None"), "True", 0)
               [] ruling = "NO_ACTION" ->
                    LET obj == [transaction EXCEPT
                                    !.status = IF transaction.status = "DISPUTED"
                                               THEN RevertedStatus(transaction) ELSE @,
                                    !.notes = <<"NO_ACTION", notes>>]
                    IN Result(SaveObject(d1, t, obj), "True", 0)
               [] OTHER -> Result(d1, "False", 0)
    IN  IF r.ret = "True" THEN r
        ELSE Result(RevertDispute(r.db, t), "False", 0)

\* Worker p is handed the dispute of t, reads its transaction and checks the
\* status; a status other than DISPUTED ends the call.
ResolveRead(p, t, ruling, admin) ==
    /\ procs[p].pc = "idle"
    /\ disputes[t].exists
    /\ IF ~CanResolve(txs[t])
       THEN /\ procs' = [procs EXCEPT ![p] =
                    [IdleProc EXCEPT !.pc = "done", !.tx = t, !.ruling = ruling,
                                     !.observed = txs[t].status, !.ret = "False"]]
            /\ last' = [op |-> "resolve", tx |-> t, ret |-> "False", id |-> 0,
                        info |-> Null]
       ELSE /\ procs' = [procs EXCEPT ![p] =
                    [IdleProc EXCEPT !.pc = "ruling", !.tx = t, !.ruling = ruling,
                                     !.observed = txs[t].status, !.base = Some(DB)]]
            /\ UNCHANGED last
    /\ UNCHANGED <<txs, listings, disputes, audit, webhooks, verifs, transitions, now>>

\* Worker p saves the dispute, executes the ruling and returns.
ResolveExecute(p, admin) ==
    /\ procs[p].pc = "ruling"
    /\ LET t == procs[p].tx
           base == procs[p].base[1]
           r == execute_ruling(DB, now, t, base.txs[t], base.disputes[t],
                               procs[p].ruling, admin, "notes")
       IN /\ Commit(r.db)
          /\ procs' = [procs EXCEPT ![p].pc = "done", ![p].ret = r.ret,
                                    ![p].wrote = (r.db.txs[t] # txs[t]),
                                    ![p].base = Null]
          /\ Called("resolve", t, r)
    /\ UNCHANGED now

NextResolveRace ==
    \/ Create(ValidCreate.buyer, ValidCreate.seller, ValidCreate.listing,
              ValidCreate.amount, ValidCreate.currency)
    \/ \E t \in TxIds : Fund(t, "h1", "a1", AllOk)
    \/ \E t \in TxIds : Complete(t)
    \/ \E t \in TxIds, reason \in Reasons : Refund(t, reason)
    \/ \E t \in TxIds : OpenDispute(t, "u1")
    \/ \E p \in Procs, t \in TxIds, ruling \in Rulings, admin \in Admins :
          ResolveRead(p, t, ruling, admin)
    \/ \E p \in Procs, admin \in Admins : ResolveExecute(p, admin)

\* The clock stands still.
SpecResolveRace == Init /\ [][NextResolveRace]_vars

\* -------------------------------------------- a failing audit-log write
\* SpecAuditFault runs the operations while AuditLog.objects.create raises
\* for entries of one action tag (failing); "none" is the store that works.
AuditFaults == {"none", "PAYMENT_RECEIVED", "TRANSFER_STARTED", "FUNDS_RELEASED",
                "FUNDS_REFUNDED", "DISPUTE_OPENED", "DISPUTE_RESOLVED"}

\* The entries result r added to the trail of t include one tagged failing.
WritesFailing(d, r, t, failing) ==
    \E i \in (Len(d.audit[t]) + 1)..Len(r.db.audit[t]) : r.db.audit[t][i].action = failing

\* try: with transaction.atomic(): ... except Exception: return <failret>.
\* r is what the block does on d when no write fails; a failing write rolls
\* the block back.
AtomicBlock(d, r, t, failing, failret) ==
    IF Exists(d, t) /\ WritesFailing(d, r, t, failing)
    THEN [db |-> d, ret |-> failret, id |-> 0, failed |-> TRUE]
    ELSE [db |-> r.db, ret |-> r.ret, id |-> r.id, failed |-> FALSE]

\* process_payment_received: the PAYMENT_RECEIVED write is in the outer block;
\* the TRANSFER_STARTED write is in the nested block of
\* start_transfer_process, whose result the caller drops.
process_payment_received_faulty(d, clk, t, tx_hash, address, probe, failing) ==
    LET r == process_payment_received(d, clk, t, tx_hash, address, probe)
    IN  IF failing = "TRANSFER_STARTED" /\ Exists(d, t) /\ WritesFailing(d, r, t, failing)
        THEN LET d1 == [d EXCEPT !.txs[t].payment_tx_hash = Some(tx_hash),
                                 !.txs[t].payment_address = Some(address),
                                 !.txs[t].funded_at = Some(clk)]
                 d2 == [SetStatus(d1, t, "FUNDED") EXCEPT !.webhooks[t] = Append(@, TRUE)]
                 d3 == AuditLogCreate(d2, t, "PAYMENT_RECEIVED", "None")
                 v == perform_full_verification(d3, t, probe)
             IN [db |-> v.db, ret |-> "True", id |-> 0, failed |-> TRUE]
        ELSE AtomicBlock(d, r, t, failing, "False")

\* resolve_dispute: complete_transaction and refund_transaction are atomic
\* blocks; the PARTIAL_REFUND branch saves the transaction and then writes its
\* entry in no block, and nothing catches what the write raises.
resolve_dispute_faulty(d, clk, t, ruling, resolved_by, notes, failing) ==
    IF ~CanResolve(d.txs[t])
    THEN [db |-> d, ret |-> "False", id |-> 0, failed |-> FALSE]
    ELSE
        LET d1 == [d EXCEPT !.disputes[t].status = "RESOLVED",
                            !.disputes[t].ruling = Some(ruling),
                            !.disputes[t].resolved_by = Some(resolved_by),
                            !.disputes[t].resolution_notes = Some(notes),
                            !.disputes[t].resolved_at = Some(clk)]
            Ruled(a) == IF a.ret = "True" THEN a
                        ELSE [db |-> RevertDispute(a.db, t), ret |-> "False", id |-> 0,
                              failed |-> a.failed]
        IN  CASE ruling = "FAVOR_SELLER" ->
                    Ruled(AtomicBlock(d1, complete_transaction(d1, clk, t), t, failing,
                                      "False"))
              [] ruling = "FAVOR_BUYER" ->
                    Ruled(AtomicBlock(d1, refund_transaction(d1, clk, t, "FAVOR_BUYER"), t,
                                      failing, "False"))
              [] ruling = "PARTIAL_REFUND" /\ failing = "DISPUTE_RESOLVED" ->
                    LET p1 == [SetStatus(d1, t, "COMPLETED") EXCEPT
                                    !.txs[t].notes = <<"PARTIAL_REFUND", notes>>]
                    IN [db |-> p1, ret |-> "Exception", id |-> 0, failed |-> TRUE]
              [] OTHER ->
                    LET n == resolve_dispute(d, clk, t, ruling, resolved_by, notes)
                    IN [db |-> n.db, ret |-> n.ret, id |-> n.id, failed |-> FALSE]

FundFaulty(t, probe, failing) ==
    /\ LET r == process_payment_received_faulty(DB, now, t, "h1", "a1", probe, failing)
       IN /\ Commit(r.db)
          /\ Called("fund", t, r)
    /\ UNCHANGED <<now, procs>>

CompleteFaulty(t, failing) ==
    /\ LET r == AtomicBlock(DB, complete_transaction(DB, now, t), t, failing, "False")
       IN /\ Commit(r.db)
          /\ Called("complete", t, r)
    /\ UNCHANGED <<now, procs>>

RefundFaulty(t, reason, failing) ==
    /\ LET r == AtomicBlock(DB, refund_transaction(DB, now, t, reason), t, failing, "False")
       IN /\ Commit(r.db)
          /\ Called("refund", t, r)
    /\ UNCHANGED <<now, procs>>

OpenDisputeFaulty(t, u, failing) ==
    /\ LET r == AtomicBlock(DB, create_dispute(DB, t, u, "description"), t, failing, "None")
       IN /\ Commit(r.db)
          /\ Called("openDispute", t, r)
    /\ UNCHANGED <<now, procs>>

ResolveFaulty(t, ruling, admin, failing) ==
    /\ disputes[t].exists
    /\ LET r == resolve_dispute_faulty(DB, now, t, ruling, admin, "notes", failing)
       IN /\ Commit(r.db)
          /\ Called("resolve", t, r)
    /\ UNCHANGED <<now, procs>>

NextAuditFault ==
    \/ Create(ValidCreate.buyer, ValidCreate.seller, ValidCreate.listing,
              ValidCreate.amount, ValidCreate.currency)
    \/ \E t \in TxIds, probe \in {AllOk, [AllOk EXCEPT !.creator = "other"]},
          failing \in AuditFaults : FundFaulty(t, probe, failing)
    \/ \E t \in TxIds, failing \in AuditFaults : CompleteFaulty(t, failing)
    \/ \E t \in TxIds, reason \in Reasons, failing \in AuditFaults :
          RefundFaulty(t, reason, failing)
    \/ \E t \in TxIds, failing \in AuditFaults : OpenDisputeFaulty(t, "u1", failing)
    \/ \E t \in TxIds, ruling \in Rulings, admin \in Admins, failing \in AuditFaults :
          ResolveFaulty(t, ruling, admin, failing)
    \/ Tick

SpecAuditFault == Init /\ [][NextAuditFault]_vars

\* ------------------------------------------- fund() under every probe answer
\* SpecVerify drives fund() with each answer the probe can give, not only
\* the answers of FundProbes.
NextVerify ==
    \/ Create(ValidCreate.buyer, ValidCreate.seller, ValidCreate.listing,
              ValidCreate.amount, ValidCreate.currency)
    \/ \E t \in TxIds, probe \in Probes : Fund(t, "h1", "a1", probe)
    \/ \E t \in TxIds : OpenDispute(t, "u1")
    \/ \E t \in TxIds, admin \in Admins : Resolve(t, "NO_ACTION", admin)
    \/ Tick

SpecVerify == Init /\ [][NextVerify]_vars

\* ------------------------------------------ two purchases of one listing
\* SpecListing has room for two transactions, which two buyers create
\* against the same listing.
ListingTxIds == {1, 2}

InitListing ==
    /\ txs = [t \in ListingTxIds |-> NoRow]
    /\ listings = [l \in ListingIds |-> IF l = "L1" THEN "ACTIVE" ELSE "SUSPENDED"]
    /\ disputes = [t \in ListingTxIds |-> NoRow]
    /\ audit = [t \in ListingTxIds |-> <<>>]
    /\ webhooks = [t \in ListingTxIds |-> <<>>]
    /\ verifs = [t \in ListingTxIds |-> NoRow]
    /\ transitions = [t \in ListingTxIds |-> <<>>]
    /\ now = 1
    /\ last = [op |-> "none", tx |-> 0, ret |-> "None", id |-> 0, info |-> Null]
    /\ procs = [p \in Procs |-> IdleProc]

NextListing ==
    \/ \E buyer \in {"u1", "u3"} :
          Create(buyer, ValidCreate.seller, ValidCreate.listing, ValidCreate.amount,
                 ValidCreate.currency)
    \/ \E t \in ListingTxIds : Fund(t, "h1", "a1", AllOk)
    \/ \E t \in ListingTxIds : Complete(t)
    \/ \E t \in ListingTxIds, reason \in Reasons : Refund(t, reason)

SpecListing == InitListing /\ [][NextListing]_vars

\* ================================================================ webhooks
\* settings.COINBASE_COMMERCE_WEBHOOK_SECRET
WebhookSecret == "whsec"

EventTypes == {"charge:confirmed", "charge:failed", "charge:delayed",
               "charge:pending", "charge:resolved", "charge:created"}

\* The body of a delivery: json is FALSE for bytes that are not JSON,
\* transaction_id is event.data.metadata.transaction_id (2 is the id of no
\* transaction), payments tells whether event.data.payments is non-empty, and
\* address whether event.data.addresses holds the payment's network.
ConfirmedBody ==
    [json |-> TRUE, type |-> "charge:confirmed", transaction_id |-> Some(1),
     payments |-> TRUE, address |-> TRUE]

Bodies ==
    {[ConfirmedBody EXCEPT !.type = e] : e \in EventTypes}
        \cup {[ConfirmedBody EXCEPT !.type = e, !.payments = FALSE] :
                    e \in {"charge:confirmed", "charge:resolved"}}
        \cup {[ConfirmedBody EXCEPT !.address = FALSE],
              [ConfirmedBody EXCEPT !.json = FALSE],
              [ConfirmedBody EXCEPT !.transaction_id = Null],
              [ConfirmedBody EXCEPT !.transaction_id = Some(2)]}

\* hmac.new(secret, payload, sha256).hexdigest()
HmacSha256(key, payload) == <<key, payload>>

\* A delivery is a body with its X-CC-Webhook-Signature header, which may be
\* absent or computed with another key.
Requests ==
    {[body |-> b, signature |-> Some(HmacSha256(WebhookSecret, b))] : b \in Bodies}
        \cup {[body |-> ConfirmedBody, signature |-> Null],
              [body |-> ConfirmedBody,
               signature |-> Some(HmacSha256("other", ConfirmedBody))]}

\* A delivery meets an answer of the probe, which only a confirmed payment
\* consults: each delivery with every check passing, and the confirmed payment
\* also with a failing check and with get_me failing.
Deliveries ==
    (Requests \X {AllOk})
        \cup ({[body |-> ConfirmedBody,
                signature |-> Some(HmacSha256(WebhookSecret, ConfirmedBody))]}
                    \X {[AllOk EXCEPT !.creator = "other"], [AllOk EXCEPT !.getme = "error"]})

\* A signature check that accepts every header.
verify_webhook_signature_Any(payload, signature) == TRUE

verify_webhook_signature(payload, signature) ==
    signature = HmacSha256(WebhookSecret, payload)

\* PaymentWebhook.objects.filter(transaction=t, processed=False).first()
\* followed by processed = True and save().
RECURSIVE FlipFirstUnprocessed(_)
FlipFirstUnprocessed(rows) ==
    IF rows = <<>> THEN <<>>
    ELSE IF ~Head(rows) THEN <<TRUE>> \o Tail(rows)
    ELSE <<Head(rows)>> \o FlipFirstUnprocessed(Tail(rows))

handle_payment_confirmed(d, clk, t, event_data, probe) ==
    IF ~event_data.payments THEN Result(d, "False", 0)
    ELSE
        LET payment_address == IF event_data.address THEN "a1" ELSE "unknown"
            r == process_payment_received(d, clk, t, "h1", payment_address, probe)
        IN  IF r.ret = "True"
            THEN Result([r.db EXCEPT !.webhooks[t] = FlipFirstUnprocessed(@)], "True", 0)
            ELSE Result(r.db, r.ret, 0)

\* The failed, delayed and pending handlers only notify.
handle_payment_failed(d, clk, t, event_data) == Result(d, "True", 0)
handle_payment_delayed(d, clk, t, event_data) == Result(d, "True", 0)
handle_payment_pending(d, clk, t, event_data) == Result(d, "True", 0)

handle_payment_resolved(d, clk, t, event_data, probe) ==
    IF event_data.payments
    THEN handle_payment_confirmed(d, clk, t, event_data, probe)
    ELSE handle_payment_failed(d, clk, t, event_data)

\* metadata.get("transaction_id") and EscrowTransaction.objects.get(id=...):
\* the transaction's id, 0 when the id is absent or no such row exists.
LookupTransaction(d, transaction_id) ==
    IF transaction_id = Null THEN 0
    ELSE IF transaction_id[1] \in TxIds /\ Exists(d, transaction_id[1])
         THEN transaction_id[1]
    ELSE 0

\* Unknown event types count as handled.
Dispatch_UnknownFails(d, clk, t, data, probe) ==
    IF data.type = "charge:confirmed" THEN handle_payment_confirmed(d, clk, t, data, probe)
    ELSE IF data.type = "charge:failed" THEN handle_payment_failed(d, clk, t, data)
    ELSE IF data.type = "charge:delayed" THEN handle_payment_delayed(d, clk, t, data)
    ELSE IF data.type = "charge:pending" THEN handle_payment_pending(d, clk, t, data)
    ELSE IF data.type = "charge:resolved" THEN handle_payment_resolved(d, clk, t, data, probe)
    ELSE Result(d, "False", 0)

Dispatch(d, clk, t, data, probe) ==
    IF data.type = "charge:confirmed" THEN handle_payment_confirmed(d, clk, t, data, probe)
    ELSE IF data.type = "charge:failed" THEN handle_payment_failed(d, clk, t, data)
    ELSE IF data.type = "charge:delayed" THEN handle_payment_delayed(d, clk, t, data)
    ELSE IF data.type = "charge:pending" THEN handle_payment_pending(d, clk, t, data)
    ELSE IF data.type = "charge:resolved" THEN handle_payment_resolved(d, clk, t, data, probe)
    ELSE Result(d, "True", 0)

process_webhook(d, clk, webhook_data, probe) ==
    LET t == LookupTransaction(d, webhook_data.transaction_id)
    IN  IF t = 0 THEN Result(d, "False", 0)
        ELSE LET d1 == [d EXCEPT !.webhooks[t] = Append(@, FALSE)]
                 r == Dispatch(d1, clk, t, webhook_data, probe)
             IN Result(r.db, r.ret, t)

\* The view: ret is the HTTP status of the response.
coinbase_webhook(d, clk, request, probe) ==
    IF request.signature = Null THEN Result(d, "400", 0)
    ELSE IF ~verify_webhook_signature(request.body, request.signature[1])
    THEN Result(d, "401", 0)
    ELSE IF ~request.body.json THEN Result(d, "400", 0)
    ELSE LET r == process_webhook(d, clk, request.body, probe)
         IN Result(r.db, IF r.ret = "True" THEN "200" ELSE "500", r.id)

\* One delivery of the provider. Deliveries that store a record stop once the
\* transaction has MaxWebhooks records.
Webhook(request, probe) ==
    LET r == coinbase_webhook(DB, now, request, probe)
    IN  /\ \A t \in TxIds : Len(r.db.webhooks[t]) <= MaxWebhooks
        /\ Commit(r.db)
        /\ Called("webhook", r.id, r)
        /\ UNCHANGED <<now, procs>>

NextWebhook ==
    \/ Create(ValidCreate.buyer, ValidCreate.seller, ValidCreate.listing,
              ValidCreate.amount, ValidCreate.currency)
    \/ \E x \in Deliveries : Webhook(x[1], x[2])
    \/ \E t \in TxIds : Complete(t)
    \/ \E t \in TxIds, reason \in Reasons : Refund(t, reason)
    \/ \E t \in TxIds : OpenDispute(t, "u1")
    \/ \E t \in TxIds, admin \in Admins : Resolve(t, "NO_ACTION", admin)

\* The payment provider's deliveries interleaved with the service calls; the
\* clock stands still.
SpecWebhook == Init /\ [][NextWebhook]_vars

\* ==================================================================== claims
Terminal == {"COMPLETED", "REFUNDED", "CANCELLED"}
FundMovements == {"FUNDS_RELEASED", "FUNDS_REFUNDED"}

\* Number of entries of a trail whose action is in S.
CountActions(trail, S) == Cardinality({i \in 1..Len(trail) : trail[i].action \in S})

\* The entries a step added to the trail of t, when the trail only grew.
Added(t) == SubSeq(audit'[t], Len(audit[t]) + 1, Len(audit'[t]))
Grew(t) == /\ Len(audit'[t]) >= Len(audit[t])
           /\ SubSeq(audit'[t], 1, Len(audit[t])) = audit[t]

\* The step is a call of the operation on transaction t.
FundStep(t) == \E a \in Addresses, x \in FundArgs : Fund(t, x[1], a, x[2])
RefundStep(t) == \E reason \in Reasons : Refund(t, reason)
OpenDisputeStep(t) == \E u \in Users : OpenDispute(t, u)
ResolveStep(t) == \E ruling \in Rulings, admin \in Admins : Resolve(t, ruling, admin)
CreateStep(t) ==
    /\ last'.tx = t
    /\ \E x \in CreateArgs : Create(x.buyer, x.seller, x.listing, x.amount, x.currency)

\* C1: for every transaction, the trail never holds more than one fund
\* movement (FUNDS_RELEASED plus FUNDS_REFUNDED entries are at most one).
C1_AtMostOneFundMovement ==
    \A t \in TxIds : CountActions(audit[t], FundMovements) <= 1

\* C2: once a transaction is COMPLETED, REFUNDED or CANCELLED, no step changes
\* its state.
C2_TerminalIsImmutable ==
    [][\A t \in TxIds :
          (txs[t].exists /\ txs[t].status \in Terminal)
              => txs'[t].status = txs[t].status]_vars

\* C3: a transaction that is COMPLETED or REFUNDED has completed_at set.
C3_SettledHasCompletedAt ==
    \A t \in TxIds :
        (txs[t].exists /\ txs[t].status \in {"COMPLETED", "REFUNDED"})
            => txs[t].completed_at # Null

\* C4: once completed_at is set, its value never changes.
C4_CompletedAtWrittenOnce ==
    [][\A t \in TxIds :
          (txs[t].exists /\ txs[t].completed_at # Null)
              => txs'[t].completed_at = txs[t].completed_at]_vars

\* C5: funded_at set implies the state is one of FUNDED, AWAITING_TRANSFER,
\* VERIFYING, COMPLETED, REFUNDED, DISPUTED (never PENDING or CANCELLED).
C5_FundedNeverPendingAgain ==
    \A t \in TxIds :
        (txs[t].exists /\ txs[t].funded_at # Null)
            => txs[t].status \in {"FUNDED", "AWAITING_TRANSFER", "VERIFYING",
                                  "COMPLETED", "REFUNDED", "DISPUTED"}

\* A NO_ACTION ruling was applied to a funded transaction, which went back to
\* AWAITING_TRANSFER.
C5_Witness ==
    \E t \in TxIds :
        /\ txs[t].exists /\ txs[t].funded_at # Null
        /\ last.op = "resolve" /\ last.tx = t /\ last.ret = "True"
        /\ disputes[t].ruling = Some("NO_ACTION")
        /\ txs[t].status = "AWAITING_TRANSFER"

\* C6: fund() on a transaction that is not PENDING returns false and leaves the
\* transaction row (state, funded_at, payment fields) and its trail unchanged.
C6_FundIdempotent ==
    [][\A t \in TxIds :
          (/\ last'.op = "fund" /\ txs[t].exists /\ txs[t].status # "PENDING"
           /\ FundStep(t))
              => /\ last'.ret = "False"
                 /\ txs'[t] = txs[t]
                 /\ audit'[t] = audit[t]]_vars

\* A fund() has returned false on a transaction that had been funded before
\* (a fund() that returns false on a PENDING one leaves it PENDING or DISPUTED).
C6_Witness ==
    \E t \in TxIds :
        /\ last.op = "fund" /\ last.tx = t /\ last.ret = "False"
        /\ txs[t].exists /\ txs[t].funded_at # Null
        /\ txs[t].status = "AWAITING_TRANSFER"

\* C7: openDispute by the buyer or the seller, when a DisputeCase exists for the
\* transaction, returns that case and changes nothing.
C7_OpenDisputeIdempotent ==
    [][\A t \in TxIds :
          (/\ txs[t].exists /\ disputes[t].exists
           /\ \E u \in {txs[t].buyer, txs[t].seller} : OpenDispute(t, u))
              => /\ last'.ret = "DisputeCase"
                 /\ last'.id = disputes[t].id
                 /\ disputes' = disputes
                 /\ txs' = txs
                 /\ audit' = audit]_vars

\* C8: resolve() on a dispute whose transaction is not DISPUTED returns false
\* and changes neither the transaction, the dispute case nor the trail.
C8_ResolveNeedsDisputed ==
    [][\A t \in TxIds :
          (last'.op = "resolve" /\ txs[t].status # "DISPUTED" /\ ResolveStep(t))
              => /\ last'.ret = "False"
                 /\ txs' = txs
                 /\ disputes' = disputes
                 /\ audit' = audit
                 /\ listings' = listings]_vars

\* A resolve() has returned false on a transaction that was not DISPUTED (a
\* resolve() that returns false on a DISPUTED one leaves it DISPUTED).
C8_Witness ==
    \E t \in TxIds :
        /\ last.op = "resolve" /\ last.tx = t /\ last.ret = "False"
        /\ disputes[t].exists
        /\ txs[t].status # "DISPUTED"

\* The action tag of the transition a successful call performs.
ExpectedTag(op, ruling) ==
    CASE op = "create" -> "ESCROW_CREATED"
      [] op = "fund" -> "PAYMENT_RECEIVED"
      [] op = "complete" -> "FUNDS_RELEASED"
      [] op = "refund" -> "FUNDS_REFUNDED"
      [] op = "openDispute" -> "DISPUTE_OPENED"
      [] op = "resolve" /\ ruling = Some("FAVOR_SELLER") -> "FUNDS_RELEASED"
      [] op = "resolve" /\ ruling = Some("FAVOR_BUYER") -> "FUNDS_REFUNDED"
      [] OTHER -> "DISPUTE_RESOLVED"

Succeeded(r) == r \in {"True", "Transaction", "DisputeCase"}

\* C9: every successful create, fund, complete, refund, openDispute or resolve
\* adds exactly one entry to the trail, with the tag of its transition; an
\* unsuccessful call adds none.
C9_OneEntryPerSuccessfulCall ==
    [][\A t \in TxIds :
          (CreateStep(t) \/ FundStep(t) \/ Complete(t) \/ RefundStep(t)
              \/ OpenDisputeStep(t) \/ ResolveStep(t))
          => IF Succeeded(last'.ret)
             THEN /\ Grew(t)
                  /\ Len(Added(t)) = 1
                  /\ Added(t)[1].action =
                        ExpectedTag(last'.op, IF disputes'[t].exists
                                              THEN disputes'[t].ruling ELSE Null)
             ELSE audit'[t] = audit[t]]_vars

\* C10: every change of a transaction's state comes with exactly one new entry
\* in the trail: a step that takes the transaction through k > 0 changes of
\* state adds k entries.
C10_OneEntryPerStateChange ==
    [][\A t \in TxIds :
          Len(transitions'[t]) > Len(transitions[t])
              => Len(audit'[t]) - Len(audit[t])
                    = Len(transitions'[t]) - Len(transitions[t])]_vars

\* C11: a successful create leaves the new transaction PENDING with funded_at
\* and completed_at null and transfer_deadline set; a status(t) read right
\* after it returns a report with state PENDING, funded_at and completed_at
\* None, the deadline of the row, and changes no row.
C11_StatusAfterCreate ==
    [][\A t \in TxIds :
          /\ (last'.op = "create" /\ last'.ret = "Transaction" /\ CreateStep(t))
                => /\ txs'[t].exists /\ txs'[t].status = "PENDING"
                   /\ txs'[t].funded_at = Null /\ txs'[t].completed_at = Null
                   /\ txs'[t].transfer_deadline # Null
          /\ (/\ last'.op = "status" /\ last.op = "create" /\ last.ret = "Transaction"
              /\ last.tx = t /\ Status(t))
                => /\ last'.ret = "Dict"
                   /\ last'.info[1].status = "PENDING"
                   /\ last'.info[1].timeline.funded_at = Null
                   /\ last'.info[1].timeline.completed_at = Null
                   /\ last'.info[1].timeline.transfer_deadline
                         = Some([iso |-> txs[t].transfer_deadline[1]])
                   /\ UNCHANGED <<txs, listings, disputes, audit, webhooks, verifs>>]_vars

\* A status report was returned for a transaction nothing has acted on since
\* its creation: one state in its history, one entry in its trail.
C11_Witness ==
    \E t \in TxIds :
        /\ last.op = "status" /\ last.tx = t /\ last.ret = "Dict"
        /\ last.info[1].status = "PENDING"
        /\ last.info[1].recent_activity = <<"ESCROW_CREATED">>
        /\ transitions[t] = <<"PENDING">>
        /\ txs[t].funded_at = Null /\ txs[t].completed_at = Null

\* The arguments of a create that the validation must refuse.
InvalidCreateInputs(b, s, l, a, c) ==
    \/ b = s
    \/ a <= 0
    \/ c \notin {"USDT", "ETH", "BTC"}
    \/ listings[l] # "ACTIVE"

\* C12: create with buyer = seller, or a non-positive amount, or a currency
\* outside USDT, ETH, BTC, or a listing that is not ACTIVE raises the
\* validation error; no transaction row and no audit entry is created.
C12_CreateValidation ==
    [][(/\ last'.op = "create"
        /\ \E x \in CreateArgs :
              /\ InvalidCreateInputs(x.buyer, x.seller, x.listing, x.amount, x.currency)
              /\ Create(x.buyer, x.seller, x.listing, x.amount, x.currency))
              => /\ last'.ret = "ValueError"
                 /\ txs' = txs
                 /\ audit' = audit
                 /\ UNCHANGED <<listings, disputes, webhooks, verifs, transitions>>]_vars

\* A create was refused for a listing that a completed sale has marked SOLD.
C12_Witness ==
    /\ last.op = "create" /\ last.ret = "ValueError"
    /\ listings["L1"] = "SOLD"
    /\ \A t \in TxIds : txs[t].exists /\ Len(audit[t]) = 4

\* Every check of the verification probe passes.
ProbePasses(p) ==
    /\ p.fetch = "ok" /\ p.getme = "ok"
    /\ p.creator = "seller" /\ p.title_matches /\ p.bot_is_admin

C14_CompleteExactlyFromTransferStates ==
    [][\A t \in TxIds :
          (last'.op = "complete" /\ txs[t].exists /\ Complete(t))
              => IF txs[t].status \in {"AWAITING_TRANSFER", "VERIFYING"}
                 THEN /\ last'.ret = "True"
                      /\ txs'[t].status = "COMPLETED"
                      /\ txs'[t].completed_at = Some(now)
                      /\ listings'[txs[t].listing] = "SOLD"
                      /\ Grew(t) /\ Len(Added(t)) = 1
                      /\ Added(t)[1].action = "FUNDS_RELEASED"
                 ELSE /\ txs[t].status \in {"PENDING", "FUNDED", "DISPUTED", "COMPLETED",
                                            "REFUNDED", "CANCELLED"}
                      /\ last'.ret = "False"
                      /\ txs' = txs /\ listings' = listings /\ audit' = audit]_vars

\* complete() has returned true on a transaction that was VERIFYING.
C14_Witness ==
    \E t \in TxIds :
        /\ last.op = "complete" /\ last.tx = t /\ last.ret = "True"
        /\ transitions[t] = <<"PENDING", "VERIFYING", "COMPLETED">>
        /\ listings[txs[t].listing] = "SOLD"

\* C15: fund() on a PENDING transaction whose verification does not pass
\* returns false and leaves the transaction DISPUTED with funded_at set, never
\* having been in AWAITING_TRANSFER during the call; a complete() called on the
\* rows that fund() left returns false.
C15_FundFailingVerification ==
    [][\A t \in TxIds, h \in Hashes, a \in Addresses, p \in FundProbes :
          (/\ last'.op = "fund" /\ txs[t].exists /\ txs[t].status = "PENDING"
           /\ ~ProbePasses(p) /\ Fund(t, h, a, p))
              => /\ last'.ret = "False"
                 /\ txs'[t].status = "DISPUTED"
                 /\ txs'[t].funded_at # Null
                 /\ \A i \in Len(transitions[t]) + 1 .. Len(transitions'[t]) :
                        transitions'[t][i] # "AWAITING_TRANSFER"
                 /\ complete_transaction(DB', now', t).ret = "False"]_vars

\* C16: resolve(FAVOR_BUYER) on a dispute whose transaction is DISPUTED returns
\* true, leaves the transaction REFUNDED with one new FUNDS_REFUNDED entry, and
\* the dispute RESOLVED with the ruling, the resolver and resolved_at recorded.
C16_FavorBuyerRefunds ==
    [][\A t \in TxIds, admin \in Admins :
          (/\ last'.op = "resolve" /\ txs[t].exists /\ txs[t].status = "DISPUTED"
           /\ Resolve(t, "FAVOR_BUYER", admin))
              => /\ last'.ret = "True"
                 /\ txs'[t].status = "REFUNDED"
                 /\ Grew(t) /\ Len(Added(t)) = 1
                 /\ Added(t)[1].action = "FUNDS_REFUNDED"
                 /\ disputes'[t].status = "RESOLVED"
                 /\ disputes'[t].ruling = Some("FAVOR_BUYER")
                 /\ disputes'[t].resolved_by = Some(admin)
                 /\ disputes'[t].resolved_at = Some(now)]_vars

\* A FAVOR_BUYER ruling has been applied: the call returned true, the
\* transaction is REFUNDED and the dispute RESOLVED.
C16_Witness ==
    \E t \in TxIds :
        /\ last.op = "resolve" /\ last.tx = t /\ last.ret = "True"
        /\ txs[t].status = "REFUNDED"
        /\ disputes[t].exists /\ disputes[t].status = "RESOLVED"
        /\ disputes[t].ruling = Some("FAVOR_BUYER")
        /\ audit[t][Len(audit[t])].action = "FUNDS_REFUNDED"

\* C17: a dispute case is resolved at most once.  A case is RESOLVED exactly
\* from the moment a resolve() on it returned true; from then on every
\* resolve() on it returns false and changes neither the case, the transaction
\* nor the trail, whatever calls were made in between.
C17_ResolvedAtMostOnce ==
    [][\A t \in TxIds :
          (/\ last'.op = "resolve" /\ disputes[t].exists
           /\ disputes[t].status = "RESOLVED" /\ ResolveStep(t))
              => /\ last'.ret = "False"
                 /\ disputes' = disputes
                 /\ txs' = txs
                 /\ audit' = audit]_vars

\* C18: when two fund() calls were made for the same transaction while it was
\* PENDING and both have returned, exactly one of them wrote: the trail holds
\* exactly one PAYMENT_RECEIVED entry, funded_at is set, and the other call
\* saw a state other than PENDING, wrote nothing and returned false.
C18_ConcurrentFundOnce ==
    \A t \in TxIds :
        (\A p \in Procs : /\ procs[p].pc = "done" /\ procs[p].tx = t
                          /\ procs[p].called_in = "PENDING")
            => /\ CountActions(audit[t], {"PAYMENT_RECEIVED"}) = 1
               /\ txs[t].funded_at # Null
               /\ \E p \in Procs :
                     /\ procs[p].wrote /\ procs[p].observed = "PENDING"
                     /\ \A q \in Procs \ {p} :
                           /\ ~procs[q].wrote
                           /\ procs[q].observed # "PENDING"
                           /\ procs[q].ret = "False"

\* C19: refund() on a transaction in any state but COMPLETED and REFUNDED
\* (PENDING, FUNDED, AWAITING_TRANSFER, VERIFYING, DISPUTED, CANCELLED) returns
\* true, sets REFUNDED and completed_at and adds one FUNDS_REFUNDED entry; on a
\* COMPLETED or REFUNDED one it returns false and changes nothing.
C19_RefundExceptSettled ==
    [][\A t \in TxIds, reason \in Reasons :
          (last'.op = "refund" /\ txs[t].exists /\ Refund(t, reason))
              => IF txs[t].status \notin {"COMPLETED", "REFUNDED"}
                 THEN /\ last'.ret = "True"
                      /\ txs'[t].status = "REFUNDED"
                      /\ txs'[t].completed_at = Some(now)
                      /\ Grew(t) /\ Len(Added(t)) = 1
                      /\ Added(t)[1].action = "FUNDS_REFUNDED"
                 ELSE /\ last'.ret = "False"
                      /\ UNCHANGED <<txs, listings, disputes, audit, webhooks, verifs,
                                     transitions>>]_vars

\* refund() has returned true on a transaction that was CANCELLED.
C19_Witness ==
    \E t \in TxIds :
        /\ last.op = "refund" /\ last.tx = t /\ last.ret = "True"
        /\ transitions[t] = <<"PENDING", "CANCELLED", "REFUNDED">>
        /\ txs[t].completed_at # Null

\* C20: openDispute by a user who is neither the buyer nor the seller of the
\* transaction returns null; the transaction, the dispute cases and the trail
\* (and every other row) stay as they were.
C20_OutsiderCannotDispute ==
    [][\A t \in TxIds, u \in Users :
          (/\ last'.op = "openDispute" /\ txs[t].exists
           /\ u # txs[t].buyer /\ u # txs[t].seller
           /\ OpenDispute(t, u))
              => /\ last'.ret = "None"
                 /\ UNCHANGED <<txs, listings, disputes, audit, webhooks, verifs,
                                transitions>>]_vars

\* An openDispute has returned null on a funded transaction that has no
\* dispute case, which a party could have disputed.
C20_Witness ==
    \E t \in TxIds :
        /\ last.op = "openDispute" /\ last.tx = t /\ last.ret = "None"
        /\ txs[t].exists /\ txs[t].status = "AWAITING_TRANSFER"
        /\ ~disputes[t].exists

\* C21: resolve(FAVOR_SELLER) on a dispute whose transaction is DISPUTED
\* returns true, leaves the transaction COMPLETED with one new FUNDS_RELEASED
\* entry, and the dispute RESOLVED.
C21_FavorSellerReleases ==
    [][\A t \in TxIds, admin \in Admins :
          (/\ last'.op = "resolve" /\ txs[t].exists /\ txs[t].status = "DISPUTED"
           /\ Resolve(t, "FAVOR_SELLER", admin))
              => /\ last'.ret = "True"
                 /\ txs'[t].status = "COMPLETED"
                 /\ Grew(t) /\ Len(Added(t)) = 1
                 /\ Added(t)[1].action = "FUNDS_RELEASED"
                 /\ disputes'[t].status = "RESOLVED"]_vars

\* C22: in every state a dispute's ruling is null unless the dispute is
\* RESOLVED (or CLOSED after it), and no step changes the ruling recorded on a
\* RESOLVED dispute.
C22_RulingOnlyWhenResolved ==
    /\ [](\A t \in TxIds :
            (disputes[t].exists /\ disputes[t].ruling # Null)
                => disputes[t].status \in {"RESOLVED", "CLOSED"})
    /\ [][\A t \in TxIds :
            (disputes[t].exists /\ disputes[t].status = "RESOLVED"
                /\ disputes[t].ruling # Null)
                => disputes'[t].ruling = disputes[t].ruling]_vars

\* C23: when the complete or refund that a ruling calls fails, resolve()
\* returns false, the dispute is AWAITING_RULING, the transaction, the listings
\* and the trail are as before (the transaction still DISPUTED), and a
\* resolve() made on the rows it left can return true.
C23_FailedRulingCanBeRetried ==
    [][\A t \in TxIds, admin \in Admins, ruling \in {"FAVOR_SELLER", "FAVOR_BUYER"} :
          (/\ last'.op = "resolve" /\ last'.ret = "False"
           /\ txs[t].exists /\ txs[t].status = "DISPUTED"
           /\ Resolve(t, ruling, admin))
              => /\ disputes'[t].status = "AWAITING_RULING"
                 /\ txs' = txs /\ txs'[t].status = "DISPUTED"
                 /\ listings' = listings /\ audit' = audit
                 /\ \E retry \in Rulings :
                       resolve_dispute(DB', now', t, retry, admin, "notes").ret = "True"]_vars

\* A ruling in favour of the seller has failed: resolve() returned false, the
\* case is AWAITING_RULING and the transaction DISPUTED.
C23_Witness ==
    \E t \in TxIds :
        /\ last.op = "resolve" /\ last.tx = t /\ last.ret = "False"
        /\ txs[t].status = "DISPUTED"
        /\ disputes[t].exists /\ disputes[t].status = "AWAITING_RULING"
        /\ disputes[t].ruling = Some("FAVOR_SELLER")

\* C24: resolve(NO_ACTION) on a DISPUTED transaction returns true and leaves it
\* in AWAITING_TRANSFER when funded_at is set and in PENDING otherwise; on the
\* rows it leaves, a fund() with a passing verification returns true from
\* PENDING and a complete() returns true from AWAITING_TRANSFER.
C24_NoActionReverts ==
    [][\A t \in TxIds, admin \in Admins :
          (/\ last'.op = "resolve" /\ txs[t].exists /\ txs[t].status = "DISPUTED"
           /\ Resolve(t, "NO_ACTION", admin))
              => /\ last'.ret = "True"
                 /\ txs'[t].status = IF txs[t].funded_at # Null
                                     THEN "AWAITING_TRANSFER" ELSE "PENDING"
                 /\ IF txs[t].funded_at # Null
                    THEN complete_transaction(DB', now', t).ret = "True"
                    ELSE process_payment_received(DB', now', t, "h1", "a1", AllOk).ret
                            = "True"]_vars

\* A NO_ACTION ruling has put a transaction that was never funded back in
\* PENDING.
C24_Witness ==
    \E t \in TxIds :
        /\ last.op = "resolve" /\ last.tx = t /\ last.ret = "True"
        /\ disputes[t].ruling = Some("NO_ACTION")
        /\ txs[t].funded_at = Null
        /\ txs[t].status = "PENDING"
        /\ transitions[t] = <<"PENDING", "DISPUTED", "PENDING">>

\* A delivery the endpoint rejects: no signature header, a signature that does
\* not verify, a body that is not JSON, no transaction id in the metadata, or
\* the id of no transaction.
RejectedRequest(request) ==
    \/ request.signature = Null
    \/ request.signature # Some(HmacSha256(WebhookSecret, request.body))
    \/ ~request.body.json
    \/ request.body.transaction_id = Null
    \/ \A t \in TxIds : request.body.transaction_id = Some(t) => ~txs[t].exists

\* C25: a rejected webhook is answered with an error status and leaves every
\* table as it was: no PaymentWebhook row is stored, no transaction is created
\* or changed and no audit entry is written.
C25_RejectedWebhookNoEffect ==
    [][(/\ last'.op = "webhook"
        /\ \E x \in Deliveries : RejectedRequest(x[1]) /\ Webhook(x[1], x[2]))
          => /\ last'.ret \in {"400", "401", "500"}
             /\ UNCHANGED <<txs, listings, disputes, audit, webhooks, verifs,
                            transitions>>]_vars

\* A delivery signed with another key was answered 401 while a transaction was
\* waiting for its payment, and the transaction has no webhook record.
C25_Witness ==
    \E t \in TxIds :
        /\ last.op = "webhook" /\ last.ret = "401"
        /\ txs[t].exists /\ txs[t].status = "PENDING"
        /\ webhooks[t] = <<>> /\ audit[t] # <<>>

\* An accepted delivery whose event moves no funds: failed, pending, delayed,
\* resolved without a payment, or a type the dispatcher does not know.
InformationalRequest(request) ==
    /\ ~RejectedRequest(request)
    /\ \/ request.body.type \in {"charge:failed", "charge:pending", "charge:delayed",
                                 "charge:created"}
       \/ request.body.type = "charge:resolved" /\ ~request.body.payments

\* C26: an event of type charge:failed, charge:pending, charge:delayed,
\* charge:resolved without a payment, or of an unknown type leaves the
\* transaction's row, its listing, its dispute, its verification results and
\* its audit trail unchanged in every state of the transaction, and an unknown
\* type is answered 200.
C26_InformationalEventsChangeNothing ==
    [][\A x \in Deliveries :
          (/\ last'.op = "webhook"
           /\ InformationalRequest(x[1])
           /\ Webhook(x[1], x[2]))
              => /\ UNCHANGED <<txs, listings, disputes, audit, verifs, transitions>>
                 /\ x[1].body.type = "charge:created" => last'.ret = "200"]_vars

\* An informational event was answered 200 for a transaction that is already
\* completed, and left an unprocessed record.
C26_Witness ==
    \E t \in TxIds :
        /\ last.op = "webhook" /\ last.tx = t /\ last.ret = "200"
        /\ txs[t].status = "COMPLETED"
        /\ webhooks[t] # <<>> /\ ~webhooks[t][Len(webhooks[t])]

\* C27: the audit trail is append-only: every step leaves the entries a
\* transaction's trail already had in place, with their action, user and
\* order, and can only add entries after them.
C27_AuditAppendOnly ==
    [][\A t \in TxIds :
          /\ Len(audit'[t]) >= Len(audit[t])
          /\ \A i \in 1..Len(audit[t]) : audit'[t][i] = audit[t][i]]_vars

\* A refund has added its entry to a trail that already held three entries.
C27_Witness ==
    \E t \in TxIds :
        /\ last.op = "refund" /\ last.tx = t /\ last.ret = "True"
        /\ Len(audit[t]) >= 4
        /\ audit[t][1].action = "ESCROW_CREATED"
        /\ audit[t][Len(audit[t])].action = "FUNDS_REFUNDED"

\* C28: a resolve() that has read the state DISPUTED does not write over a
\* state another operation has committed since: when its writes are made on a
\* transaction that has left DISPUTED, the transaction's row stays as that
\* operation left it.
C28_ResolveKeepsCommittedState ==
    [][\A p \in Procs, admin \in Admins :
          (/\ last'.op = "resolve"
           /\ procs[p].pc = "ruling"
           /\ txs[procs[p].tx].status # "DISPUTED"
           /\ ResolveExecute(p, admin))
              => txs'[procs[p].tx] = txs[procs[p].tx]]_vars

\* C29: state change and audit write are atomic in every ruling applied by
\* resolve(): when the audit write of the ruling fails, resolve() does not
\* succeed and the transaction, the listing and the dispute case keep the
\* values they had before the call.
C29_AuditFailureFailsWhole ==
    [][\A t \in TxIds, ruling \in Rulings, admin \in Admins, failing \in AuditFaults :
          (/\ last'.op = "resolve"
           /\ disputes[t].exists
           /\ resolve_dispute_faulty(DB, now, t, ruling, admin, "notes", failing).failed
           /\ ResolveFaulty(t, ruling, admin, failing))
              => /\ last'.ret # "True"
                 /\ UNCHANGED <<txs, listings, disputes>>]_vars

\* C30: verification inside fund() is fail-closed: a fund() on a PENDING
\* transaction during which the probe cannot be reached or raises (fetching
\* the chat or its administrators, or the agent's own identity) records a
\* FAILED verification result and leaves the transaction DISPUTED, not
\* PENDING and not FUNDED.
C30_VerificationFailClosed ==
    [][\A t \in TxIds, x \in FundArgs, a \in Addresses :
          (/\ last'.op = "fund" /\ txs[t].exists /\ txs[t].status = "PENDING"
           /\ (x[2].fetch = "error" \/ x[2].getme = "error")
           /\ Fund(t, x[1], a, x[2]))
              => /\ verifs'[t].exists /\ verifs'[t].result = "FAILED"
                 /\ txs'[t].status = "DISPUTED"]_vars

\* The reasons the three checks give for the answers of a probe, in the order
\* ownership, metadata, monitoring agent; a passing check gives none.
ExpectedReasons(probe) ==
    (IF probe.creator = "none" THEN <<"NO_CREATOR">>
     ELSE IF probe.creator # "seller" THEN <<"NOT_CREATOR">> ELSE <<>>)
        \o (IF probe.title_matches THEN <<>> ELSE <<"TITLE_MISMATCH">>)
        \o (IF probe.bot_is_admin THEN <<>> ELSE <<"BOT_NOT_ADMIN">>)

\* C31: when fund() runs the three checks on the probe's answers, the result
\* it records is PASSED exactly when the seller is the creator, the title
\* matches and the monitoring agent is an administrator; otherwise it is
\* FAILED and its failure reasons are the reasons of the failed checks, one
\* per failed check in their order; the three booleans recorded are the
\* outcomes of the checks, and the result is never PENDING or MANUAL_REVIEW.
C31_ResultIsConjunctionOfChecks ==
    [][\A t \in TxIds, probe \in Probes :
          (/\ last'.op = "fund" /\ txs[t].exists /\ txs[t].status = "PENDING"
           /\ probe.fetch = "ok" /\ probe.getme = "ok"
           /\ Fund(t, "h1", "a1", probe))
              => LET own == probe.creator = "seller"
                     row == verifs'[t]
                 IN /\ row.exists
                    /\ row.result \in {"PASSED", "FAILED"}
                    /\ row.result = "PASSED"
                            <=> (own /\ probe.title_matches /\ probe.bot_is_admin)
                    /\ row.ownership_verified = own
                    /\ row.metadata_matches = probe.title_matches
                    /\ row.admin_permissions_correct = probe.bot_is_admin
                    /\ row.failure_reasons = ExpectedReasons(probe)
                    /\ (row.result = "PASSED") <=> (row.failure_reasons = <<>>)]_vars

\* A fund() has recorded a FAILED result with the reasons of two failed checks
\* and none for the metadata check, which passed.
C31_Witness ==
    \E t \in TxIds :
        /\ last.op = "fund" /\ last.tx = t /\ last.ret = "False"
        /\ verifs[t].exists /\ verifs[t].result = "FAILED"
        /\ verifs[t].metadata_matches
        /\ verifs[t].failure_reasons = <<"NOT_CREATOR", "BOT_NOT_ADMIN">>

\* C32: a delivery that is accepted for an existing transaction adds exactly
\* one PaymentWebhook record; the records stored before keep their processed
\* flag (none is flipped by a later event, none goes back to false); and the
\* new record is processed exactly when the delivery changed the
\* transaction's state.
C32_OneRecordFlippedByOwnEvent ==
    [][\A x \in Deliveries :
          (/\ last'.op = "webhook"
           /\ ~RejectedRequest(x[1])
           /\ Webhook(x[1], x[2]))
              => LET t == x[1].body.transaction_id[1]
                     n == Len(webhooks[t])
                 IN /\ Len(webhooks'[t]) = n + 1
                    /\ \A i \in 1..n : webhooks'[t][i] = webhooks[t][i]
                    /\ webhooks'[t][n + 1] <=> (txs'[t].status # txs[t].status)]_vars

\* The steps of the chain of dispute states, with the rollback of a failed
\* ruling.
DisputeChain ==
    {<<"OPEN", "INVESTIGATING">>, <<"INVESTIGATING", "AWAITING_RULING">>,
     <<"AWAITING_RULING", "RESOLVED">>, <<"RESOLVED", "CLOSED">>,
     <<"RESOLVED", "AWAITING_RULING">>}

\* C33: every change of a dispute's state is a step of the chain OPEN ->
\* INVESTIGATING -> AWAITING_RULING -> RESOLVED -> CLOSED or the rollback
\* RESOLVED -> AWAITING_RULING; in particular a dispute becomes RESOLVED only
\* from AWAITING_RULING.
C33_DisputeChainOnly ==
    [][\A t \in TxIds :
          (disputes[t].exists /\ disputes'[t].exists
           /\ disputes'[t].status # disputes[t].status)
              => <<disputes[t].status, disputes'[t].status>> \in DisputeChain]_vars

\* C34: in every reachable state a transaction in DISPUTED has a DisputeCase.
C34_DisputedHasCase ==
    \A t \in TxIds :
        (txs[t].exists /\ txs[t].status = "DISPUTED") => disputes[t].exists

\* C35: in every reachable state the listing of a COMPLETED transaction is
\* SOLD.
C35_CompletedListingSold ==
    \A t \in TxIds :
        (txs[t].exists /\ txs[t].status = "COMPLETED")
            => listings[txs[t].listing] = "SOLD"

\* C36: for each listing, at most one transaction ever reaches COMPLETED.
C36_ListingSoldOnce ==
    \A l \in ListingIds :
        Cardinality({t \in DOMAIN txs :
                        /\ txs[t].exists /\ txs[t].listing = l
                        /\ \E i \in 1..Len(transitions[t]) :
                              transitions[t][i] = "COMPLETED"}) <= 1

\* The states the service operations write.
ServiceStates ==
    {"PENDING", "FUNDED", "AWAITING_TRANSFER", "DISPUTED", "COMPLETED", "REFUNDED"}

\* C37: no sequence of create, fund, complete, refund, openDispute and resolve
\* calls puts a transaction in VERIFYING or CANCELLED: the state of every
\* transaction, and every state it has been in, is one of PENDING, FUNDED,
\* AWAITING_TRANSFER, DISPUTED, COMPLETED and REFUNDED.
C37_ServiceStatesOnly ==
    \A t \in TxIds :
        txs[t].exists
            => /\ txs[t].status \in ServiceStates
               /\ \A i \in 1..Len(transitions[t]) : transitions[t][i] \in ServiceStates

\* A transaction has been in each of the six states.
C37_Witness ==
    \E t \in TxIds :
        /\ txs[t].exists
        /\ {transitions[t][i] : i \in 1..Len(transitions[t])} = ServiceStates

\* C38: a correctly signed event for an existing transaction is not answered
\* 500 on every delivery: when a delivery is answered 500, the redelivery of
\* the same event to the state it left is acknowledged with 200 under some
\* answer of the probe.
C38_RedeliveryAcknowledged ==
    [][\A x \in Deliveries :
          (/\ last'.op = "webhook" /\ last'.ret = "500"
           /\ ~RejectedRequest(x[1])
           /\ Webhook(x[1], x[2]))
              => \E y \in Deliveries :
                    coinbase_webhook(DB', now', x[1], y[2]).ret = "200"]_vars

\* The rulings that move the funds.
SettlingRulings == {"FAVOR_SELLER", "FAVOR_BUYER", "PARTIAL_REFUND"}

\* C39: of the resolve() calls made for one dispute by the two workers, at
\* most one has returned true; and once a call has returned true for a ruling
\* that moves the funds, the dispute is RESOLVED with that ruling, not
\* AWAITING_RULING and not with the other call's ruling.
C39_OneRulingWins ==
    \A t \in TxIds :
        /\ Cardinality({p \in Procs : /\ procs[p].pc = "done" /\ procs[p].tx = t
                                      /\ procs[p].ruling # "none"
                                      /\ procs[p].ret = "True"}) <= 1
        /\ \A p \in Procs :
              (/\ procs[p].pc = "done" /\ procs[p].tx = t /\ procs[p].ret = "True"
               /\ procs[p].ruling \in SettlingRulings)
                  => /\ disputes[t].status = "RESOLVED"
                     /\ disputes[t].ruling = Some(procs[p].ruling)
====
